---- MODULE Spec2Model ----
(***************************************************************************)
(* Model of didtheleafslose.                                               *)
(*                                                                         *)
(* The scheduled poller (netlify/functions/check-game.mts) decides whether *)
(* to poll the NHL schedule, detects a newly completed game, generates a   *)
(* review and stores it in the "game-reviews" blob store, keeping its own  *)
(* state ("lastGameId", "nextGameTime") in the "game-state" blob store.    *)
(* The backfill function writes the records of completed games that have   *)
(* none, in batches of BATCH_SIZE; the storage library (app/lib/storage.ts)*)
(* reads the records for the pages, and the home page derives its verdict  *)
(* from the latest completed game.                                         *)
(*                                                                         *)
(* Time is counted in units of 30 minutes.  A timestamp string such as     *)
(* startTimeUTC is represented by the decimal string of its instant, and   *)
(* new Date(s).getTime() by the parse of that string.                      *)
(***************************************************************************)
EXTENDS Integers, Sequences, FiniteSets, TLC

\* ---- bounds of the model ------------------------------------------------
NumGames == 2
NumPollers == 2
NumBackfills == 2
GameGap == 2
MaxScore == 1
SeasonGames == 3

\* ---- program constants --------------------------------------------------
\* 90 * 60 * 1000 ms, in units of 30 minutes
RecentStartWindow == 3

\* const BATCH_SIZE = 2 of the backfill function
BATCH_SIZE == 2

GameIds == 1..NumGames
Pollers == 1..NumPollers
Backfills == 1..NumBackfills
StartInstant(i) == GameGap * i
MaxTime == StartInstant(NumGames) + RecentStartWindow + 1
Instants == 0..MaxTime

\* JavaScript null where an object is expected: store.get(key, {type: "json"})
\* for an absent key, a field of ScheduleData with no game
Null == [isNull |-> TRUE]

\* JavaScript null where a string is expected: store.get(key, {type: "text"})
\* for an absent key, generateReview on failure
NullText == "(null)"

\* String(latestGame.id)
String(n) == ToString(n)

\* the gameDate string of the i-th game of the season
GameDate(i) == "2025-01-0" \o ToString(i)

\* the gameDate of the i-th game when the league replays it on another day
\* under the same id
MakeupDate(i) == "2025-02-0" \o ToString(i)

\* new Date(nextGameTime).getTime()
DateGetTime(s) == CHOOSE t \in Instants : ToString(t) = s

\* the texts model.generateContent(prompt) / result.response.text() can give
ReviewTexts == {"", "recap"}

\* values of gameState the league uses; the code names only OFF, FINAL and
\* FUT
GameStates == {"FUT", "PRE", "LIVE", "CRIT", "FINAL", "OFF"}

\* HTTP statuses the schedule endpoint answers with
Statuses == {200, 503}

VARIABLES
  apiKey,       \* process.env.GEMINI_API_KEY
  now,          \* Date.now()
  games,        \* data.games as the schedule endpoint returns it at present
  healthy,      \* TRUE while no collaborator (HTTP endpoints, blob stores,
                \* Gemini) fails
  stateStore,   \* blob store "game-state": key -> text
  reviewsStore, \* blob store "game-reviews": key -> JSON record
  inv,          \* per invocation of the handler: position and local variables
  prev,         \* per poller: summary of its previous invocation
  backfill,     \* per invocation of the backfill function: position and
                \* local variables
  reader,       \* the call of the storage library a page build is in
  refused       \* the ids of the games whose recap the text-generation API
                \* refuses every time it is asked

vars == <<refused, backfill, reader, apiKey, now, games, healthy, stateStore, reviewsStore, inv, prev>>

\* ---- blob stores --------------------------------------------------------
\* a store with no blobs
EmptyStore == [k \in {} |-> Null]

\* store.get(key, { type: "text" }): null when the key is absent
StoreGetText(store, key) == IF key \in DOMAIN store THEN store[key] ELSE NullText

\* store.get(key, { type: "json" }): null when the key is absent
StoreGetJSONAbsent(store, key) == Null
StoreGetJSON(store, key) == IF key \in DOMAIN store THEN store[key] ELSE Null

\* store.set(key, value)
StoreSetDropped(store, key, value) == store
StoreSetAlone(store, key, value) == [k \in {key} |-> value]
StoreSet(store, key, value) ==
  [k \in DOMAIN store \cup {key} |-> IF k = key THEN value ELSE store[k]]

\* store.setJSON(key, value)
StoreSetJSONDropped(store, key, value) == store
StoreSetJSONAlone(store, key, value) == [k \in {key} |-> value]
StoreSetJSON(store, key, value) ==
  [k \in DOMAIN store \cup {key} |-> IF k = key THEN value ELSE store[k]]

\* JSON.stringify of a number or a string, as setJSON writes it: the digits
\* of the number, the string between double quotes
JsonStringify(v) == ToString(v)

\* JavaScript truthiness of a string-or-null value
Truthy(v) == v # NullText /\ v # ""

\* JavaScript truthiness of an object-or-null value
TruthyObject(v) == v # Null

\* ---- the schedule -------------------------------------------------------
\* an optional number (score?: number) is <<>> when absent and <<n>> when n
NoScore == <<>>
Scores == {NoScore} \cup {<<n>> : n \in 0..MaxScore}

\* x ?? 0
OrZeroKeepsAbsent(x) == IF x = NoScore THEN 0 - 1 ELSE x[1]
OrZero(x) == IF x = NoScore THEN 0 ELSE x[1]

\* one side of a Game
Team(abbrev, place, score) ==
  [abbrev |-> abbrev, placeName |-> [default |-> place], score |-> score]

\* the club's opponents, by turns
Opponents ==
  <<[abbrev |-> "BOS", place |-> "Boston"], [abbrev |-> "MTL", place |-> "Montreal"]>>
OpponentOf(i) == Opponents[((i - 1) % Len(Opponents)) + 1]

\* the club plays its odd games at home; the schedule shows no score for a
\* game that has not started
LeafsAtHome(i) == i % 2 = 1
HomeTeamOf(i, st) ==
  IF LeafsAtHome(i)
  THEN Team("TOR", "Toronto", IF st = "FUT" THEN NoScore ELSE <<4>>)
  ELSE Team(OpponentOf(i).abbrev, OpponentOf(i).place,
            IF st = "FUT" THEN NoScore ELSE <<4>>)
AwayTeamOf(i, st) ==
  IF LeafsAtHome(i)
  THEN Team(OpponentOf(i).abbrev, OpponentOf(i).place,
            IF st = "FUT" THEN NoScore ELSE <<2>>)
  ELSE Team("TOR", "Toronto", IF st = "FUT" THEN NoScore ELSE <<2>>)

\* an element of data.games
GameWith(i, st, homeTeam, awayTeam) ==
  [id |-> i, gameDate |-> GameDate(i), gameState |-> st,
   startTimeUTC |-> ToString(StartInstant(i)),
   homeTeam |-> homeTeam, awayTeam |-> awayTeam]

Game(i, st) == GameWith(i, st, HomeTeamOf(i, st), AwayTeamOf(i, st))

\* completed games with every side, place and pair of scores
CompletedGames(i) ==
  {GameWith(i, "FINAL", Team(h.abbrev, h.place, hs), Team(a.abbrev, a.place, as)) :
     <<h, a>> \in {<<[abbrev |-> "TOR", place |-> "Toronto"], OpponentOf(i)>>,
                  <<OpponentOf(i), [abbrev |-> "TOR", place |-> "Toronto"]>>},
     hs \in Scores, as \in Scores}

\* res.ok
ResOkAlways(status) == TRUE
ResOk(status) == status \in 200..299

\* the three filters of getScheduleData
IsCompleted(game) == game.gameState = "OFF" \/ game.gameState = "FINAL"
IsUpcomingUnlessCompleted(game) ==
  game.gameState # "OFF" /\ game.gameState # "FINAL"
IsUpcoming(game) == game.gameState = "FUT"
IsLiveNever(game) == FALSE
IsLive(game) ==
  game.gameState # "OFF" /\ game.gameState # "FINAL" /\ game.gameState # "FUT"

\* the three lists getScheduleData filters out of data.games
Classify(data) ==
  [completedGames |-> SelectSeq(data, IsCompleted),
   upcomingGames |-> SelectSeq(data, IsUpcoming),
   liveGames |-> SelectSeq(data, IsLive)]

\* the value getScheduleData returns after a successful fetch
ScheduleDataFirstCompleted(data) ==
  LET completedGames == Classify(data).completedGames
      upcomingGames == Classify(data).upcomingGames
      liveGames == Classify(data).liveGames
  IN [latestCompleted |-> IF Len(completedGames) > 0 THEN completedGames[1] ELSE Null,
      nextUpcoming |-> IF Len(upcomingGames) > 0 THEN upcomingGames[1] ELSE Null,
      gameInProgress |-> IF Len(liveGames) > 0 THEN liveGames[1] ELSE Null]
ScheduleData(data) ==
  LET completedGames == Classify(data).completedGames
      upcomingGames == Classify(data).upcomingGames
      liveGames == Classify(data).liveGames
  IN [latestCompleted |->
        IF Len(completedGames) > 0 THEN completedGames[Len(completedGames)] ELSE Null,
      nextUpcoming |-> IF Len(upcomingGames) > 0 THEN upcomingGames[1] ELSE Null,
      gameInProgress |-> IF Len(liveGames) > 0 THEN liveGames[1] ELSE Null]

\* the value getLeafsGames (sitemap.ts) returns after a successful fetch
LeafsGames(data) ==
  LET completedGames == SelectSeq(data, IsCompleted)
      upcomingGames == SelectSeq(data, IsUpcoming)
  IN [latestGame |->
        IF Len(completedGames) > 0 THEN completedGames[Len(completedGames)] ELSE Null,
      nextGame |-> IF Len(upcomingGames) > 0 THEN upcomingGames[1] ELSE Null]

\* `${latestGame.id}-${latestGame.gameDate}`
CurrentGameKeyIdOnly(latestGame) == String(latestGame.id)
CurrentGameKey(latestGame) == String(latestGame.id) \o "-" \o latestGame.gameDate

\* ---- the handler's decisions -------------------------------------------
\* const msSinceStart = now - gameStart
MsSinceStartSwapped(dateNow, gameStart) == gameStart - dateNow
MsSinceStart(dateNow, gameStart) == dateNow - gameStart

\* msSinceStart < 0
NotStarted(msSinceStart) == msSinceStart < 0

\* msSinceStart < 90 * 60 * 1000
StartedRecentlyShort(msSinceStart) == msSinceStart < RecentStartWindow - 1
StartedRecently(msSinceStart) == msSinceStart < RecentStartWindow

\* lastKnownGameKey === currentGameKey
SameGameNever(lastKnownGameKey, currentGameKey) == FALSE
SameGame(lastKnownGameKey, currentGameKey) == lastKnownGameKey = currentGameKey

\* !apiKey is false
HasKeyAlways(key) == TRUE
HasKey(key) == Truthy(key)

\* if (review) of the poller, if (!review) continue of the backfill
HasReviewUnlessNull(review) == review # NullText
HasReview(review) == Truthy(review)

\* !existingReview
NoReviewAlways(existingReview) == TRUE
NoReview(existingReview) == existingReview = Null

\* ---- game detail --------------------------------------------------------
\* the periods with goals of the i-th game: regulation only, overtime, or
\* overtime and shootout
PeriodTypes(i) ==
  IF i % 3 = 1 THEN <<"REG">>
  ELSE IF i % 3 = 2 THEN <<"REG", "OT">> ELSE <<"REG", "OT", "SO">>

\* the body of gamecenter/<id>/landing
Landing(game) ==
  [summary |->
     [scoring |-> [k \in 1..Len(PeriodTypes(game.id)) |->
                     [periodDescriptor |-> [number |-> k,
                                            periodType |-> PeriodTypes(game.id)[k]]]],
      penalties |-> <<[periodDescriptor |-> [number |-> 1, periodType |-> "REG"]]>>]]

\* the body of gamecenter/<id>/boxscore
Boxscore(game) ==
  [homeTeam |-> [abbrev |-> game.homeTeam.abbrev, sog |-> 30, powerPlay |-> "1/3", pim |-> 4],
   awayTeam |-> [abbrev |-> game.awayTeam.abbrev, sog |-> 25, powerPlay |-> "0/2", pim |-> 6],
   summary |-> [threeStars |-> <<[star |-> 1, teamAbbrev |-> game.homeTeam.abbrev]>>],
   playerByGameStats |->
     [homeTeam |-> [forwards |-> <<"hf">>, defense |-> <<"hd">>, goalies |-> <<"hg">>],
      awayTeam |-> [forwards |-> <<"af">>, defense |-> <<"ad">>, goalies |-> <<"ag">>]]]

\* res.ok ? await res.json() : null
JsonIfOkAlways(status, body) == body
JsonIfOk(status, body) == IF ResOk(status) THEN body ELSE Null

\* what getGameData returns (lines 240-265) from the two bodies, either of
\* which may be null
GameData(landing, boxscore) ==
  LET playerByGameStats == IF boxscore = Null THEN Null ELSE boxscore.playerByGameStats
      leafsIsHome == boxscore # Null /\ boxscore.homeTeam.abbrev = "TOR"
      leafsPlayerStats ==
        IF TruthyObject(playerByGameStats)
        THEN IF leafsIsHome THEN playerByGameStats.homeTeam ELSE playerByGameStats.awayTeam
        ELSE Null
      opponentPlayerStats ==
        IF TruthyObject(playerByGameStats)
        THEN IF leafsIsHome THEN playerByGameStats.awayTeam ELSE playerByGameStats.homeTeam
        ELSE Null
      Skaters(stats) == IF stats = Null THEN <<>> ELSE stats.forwards \o stats.defense
      Goalies(stats) == IF stats = Null THEN <<>> ELSE stats.goalies
  IN [scoring |-> IF landing = Null THEN <<>> ELSE landing.summary.scoring,
      penalties |-> IF landing = Null THEN <<>> ELSE landing.summary.penalties,
      threeStars |-> IF boxscore = Null THEN <<>> ELSE boxscore.summary.threeStars,
      homeTeam |-> IF boxscore = Null THEN Null ELSE boxscore.homeTeam,
      awayTeam |-> IF boxscore = Null THEN Null ELSE boxscore.awayTeam,
      leafsSkaters |-> Skaters(leafsPlayerStats),
      leafsGoalies |-> Goalies(leafsPlayerStats),
      opponentSkaters |-> Skaters(opponentPlayerStats),
      opponentGoalies |-> Goalies(opponentPlayerStats)]

\* latestGame.homeTeam.abbrev === "TOR"
IsLeafsHome(game) == game.homeTeam.abbrev = "TOR"

\* { sog, powerPlay, pim } of a boxscore team
TeamStats(team) == [sog |-> team.sog, powerPlay |-> team.powerPlay, pim |-> team.pim]

\* lines 480-484
LeafsStats(game, homeTeam, awayTeam) ==
  IF IsLeafsHome(game) /\ TruthyObject(homeTeam) THEN TeamStats(homeTeam)
  ELSE IF ~IsLeafsHome(game) /\ TruthyObject(awayTeam) THEN TeamStats(awayTeam)
  ELSE Null

\* lines 485-489
OpponentStats(game, homeTeam, awayTeam) ==
  IF IsLeafsHome(game) /\ TruthyObject(awayTeam) THEN TeamStats(awayTeam)
  ELSE IF ~IsLeafsHome(game) /\ TruthyObject(homeTeam) THEN TeamStats(homeTeam)
  ELSE Null

\* the arguments of the call of generateReview at line 492
ReviewArgs(latestGame, gameData) ==
  [game |-> latestGame,
   scoring |-> gameData.scoring,
   penalties |-> gameData.penalties,
   threeStars |-> gameData.threeStars,
   leafsStats |-> LeafsStats(latestGame, gameData.homeTeam, gameData.awayTeam),
   opponentStats |-> OpponentStats(latestGame, gameData.homeTeam, gameData.awayTeam),
   leafsSkaters |-> gameData.leafsSkaters,
   leafsGoalies |-> gameData.leafsGoalies,
   opponentSkaters |-> gameData.opponentSkaters,
   opponentGoalies |-> gameData.opponentGoalies]

\* scoring.some((p) => p.periodDescriptor.periodType === periodType)
SomePeriod(scoring, periodType) ==
  \E k \in 1..Len(scoring) : scoring[k].periodDescriptor.periodType = periodType

\* the StoredGame record of lines 495-512
StoredGame(latestGame, scoring, review) ==
  LET isLeafsHome == IsLeafsHome(latestGame)
      leafsScore == IF isLeafsHome THEN OrZero(latestGame.homeTeam.score)
                                   ELSE OrZero(latestGame.awayTeam.score)
      opponentScore == IF isLeafsHome THEN OrZero(latestGame.awayTeam.score)
                                      ELSE OrZero(latestGame.homeTeam.score)
      opponent == IF isLeafsHome THEN latestGame.awayTeam.placeName.default
                                 ELSE latestGame.homeTeam.placeName.default
  IN [gameId |-> latestGame.id,
      gameDate |-> latestGame.gameDate,
      opponent |-> opponent,
      isLeafsHome |-> isLeafsHome,
      didLose |-> leafsScore < opponentScore,
      leafsScore |-> leafsScore,
      opponentScore |-> opponentScore,
      wasOT |-> SomePeriod(scoring, "OT"),
      wasSO |-> SomePeriod(scoring, "SO"),
      review |-> review]

\* the verdict the home page shows for the latest completed game
\* (page.tsx, Home)
HomeVerdict(game) ==
  LET isLeafsHome == game.homeTeam.abbrev = "TOR"
      leafsScore == IF isLeafsHome THEN game.homeTeam.score ELSE game.awayTeam.score
      opponentScore == IF isLeafsHome THEN game.awayTeam.score ELSE game.homeTeam.score
  IN [isLeafsHome |-> isLeafsHome,
      leafsScore |-> leafsScore,
      opponentScore |-> opponentScore,
      didLose |-> OrZero(leafsScore) < OrZero(opponentScore)]

\* ---- the storage library (app/lib/storage.ts) ---------------------------
\* getGameReview(gameId): null outside Netlify and when the store rejects
GetGameReview(store, gameId, isNetlifyEnvironment, storeOk) ==
  IF ~isNetlifyEnvironment THEN Null
  ELSE IF ~storeOk THEN Null
  ELSE StoreGetJSON(store, String(gameId))

\* store.list(): the keys, in the order of the listing
StoreList(store) ==
  SelectSeq([i \in GameIds |-> String(i)], LAMBDA key : key \in DOMAIN store)

\* a.localeCompare(b) of two gameDate strings: dates of one format compare
\* as the days they name
DateRank(gameDate) == CHOOSE i \in GameIds : GameDate(i) = gameDate
LocaleCompare(a, b) ==
  IF a = b THEN 0 ELSE IF DateRank(a) < DateRank(b) THEN 0 - 1 ELSE 1

\* (a, b) => b.gameDate.localeCompare(a.gameDate)
ByDateDescending(a, b) == LocaleCompare(b.gameDate, a.gameDate)

\* gs.sort(ByDateDescending), a stable sort
RECURSIVE Sort(_)
Sort(gs) ==
  IF gs = <<>> THEN <<>>
  ELSE LET sorted == Sort(Tail(gs))
           before == SelectSeq(sorted, LAMBDA g : ByDateDescending(Head(gs), g) > 0)
           after == SelectSeq(sorted, LAMBDA g : ByDateDescending(Head(gs), g) <= 0)
       IN before \o <<Head(gs)>> \o after

\* what getAllGameReviews returns from the blobs it got for the listed keys
AllGameReviewsUnsorted(gotten) == SelectSeq(gotten, LAMBDA g : g # Null)
AllGameReviews(gotten) == Sort(SelectSeq(gotten, LAMBDA g : g # Null))

\* op: the function called; pc: "gets" between store.list() and the gets
\* of getAllGameReviews; keys: the listing; result: what the call returned
IdleReader == [pc |-> "idle", op |-> "", keys |-> <<>>, result |-> Null]

\* return value
Returned(call, value) == [call EXCEPT !.pc = "done", !.result = value]

\* catch (error) { console.error(...); return fallback }: a rejection of
\* the store inside the try block does not leave the function
CatchRethrows(call, fallback) == [call EXCEPT !.pc = "threw"]
Catch(call, fallback) == [call EXCEPT !.pc = "done", !.result = fallback]

\* ---- the backfill function -----------------------------------------------
\* what the backfill's getGameData returns from the two bodies
BackfillGameData(landing, boxscore) ==
  [scoring |-> IF landing = Null THEN <<>> ELSE landing.summary.scoring,
   threeStars |-> IF boxscore = Null THEN <<>> ELSE boxscore.summary.threeStars,
   homeTeam |-> IF boxscore = Null THEN Null ELSE boxscore.homeTeam,
   awayTeam |-> IF boxscore = Null THEN Null ELSE boxscore.awayTeam]

\* array.slice(start, end) for 0 <= start <= end
SliceAll(array, start, end) == array
Slice(array, start, end) ==
  SubSeq(array, start + 1, IF Len(array) < end THEN Len(array) ELSE end)

\* pc: the await the invocation is at, or idle / done / threw;
\* games: the completed games of the schedule; storedIds: the keys listed
\* at the start; batch: the games this invocation works on, k the index of
\* the one in work; generated, written: the ids generateReview and setJSON
\* were called for; results: the list reported as "processed"
IdleBackfill ==
  [pc |-> "idle", games |-> <<>>, storedIds |-> {}, missingGames |-> <<>>,
   batch |-> <<>>, gameData |-> <<>>, k |-> 0, review |-> NullText,
   generated |-> {}, written |-> {}, results |-> <<>>, response |-> Null]

BackfillFinished(b) == backfill[b].pc \in {"idle", "done", "threw"}

\* an await outside the try block rejects
BackfillThrow(i) == [IdleBackfill EXCEPT !.pc = "threw"]

\* results.push({ gameId, success, error })
Push(i, success, error) ==
  [i EXCEPT !.results =
     Append(@, [gameId |-> i.batch[i.k].id, success |-> success, error |-> error])]

\* the for loop goes to the next game of the batch, or ends
NextGameBreaks(i) == [i EXCEPT !.review = NullText, !.pc = "relist"]
NextGame(i) ==
  IF i.k < Len(i.batch)
  THEN [i EXCEPT !.k = @ + 1, !.review = NullText, !.pc = "generateReview"]
  ELSE [i EXCEPT !.review = NullText, !.pc = "relist"]

\* ---- invocations --------------------------------------------------------
NoCalls ==
  [schedule |-> 0, detail |-> 0, generate |-> 0, gemini |-> 0,
   stateSet |-> 0, reviewSet |-> 0, rebuild |-> 0]

\* pc: the await the invocation is at, or idle / done / threw;
\* status: res.status of the schedule fetch (0 before it);
\* detail: res.status of the landing and boxscore fetches (0 before them);
\* gameData: what getGameData returned; args: what generateReview was
\* called with;
\* calls: how often this invocation called each function and collaborator
\* (gemini: model.generateContent);
\* snapState, snapReviews: the two stores as the invocation found them
IdleInv ==
  [pc |-> "idle", status |-> 0, schedule |-> Null,
   detail |-> [landing |-> 0, boxscore |-> 0], gameData |-> Null, args |-> Null,
   review |-> NullText,
   response |-> "", calls |-> NoCalls,
   snapState |-> EmptyStore, snapReviews |-> EmptyStore]

NoPrev == [latest |-> 0, generated |-> FALSE]

Finished(p) == inv[p].pc \in {"idle", "done", "threw"}

\* the game an invocation is working on (0 before the schedule is known)
LatestId(i) ==
  IF i.schedule # Null /\ i.schedule.latestCompleted # Null
  THEN i.schedule.latestCompleted.id ELSE 0

\* what is remembered of an invocation once the next one starts: the game
\* it processed, if it returned "Processed game", and whether generateReview
\* gave it a text
Summary(i) ==
  IF i.pc = "done" /\ i.response = "Processed game"
  THEN [latest |-> LatestId(i), generated |-> Truthy(i.review)]
  ELSE NoPrev

Bump(c, f) == [c EXCEPT ![f] = @ + 1]

\* return new Response(text, { status: 200 })
Return(i, text) == [i EXCEPT !.pc = "done", !.response = text]
\* a rejected await that nothing catches: the handler's promise rejects
Throw(i) == [IdleInv EXCEPT !.pc = "threw", !.calls = i.calls]
Goto(i, label) == [i EXCEPT !.pc = label]
\* past the if (!existingReview) block its constants are out of scope
LeaveBlock(i) ==
  [i EXCEPT !.detail = IdleInv.detail, !.gameData = Null, !.args = Null]

Init ==
  /\ apiKey = "key"
  /\ now = 0
  /\ games = [i \in GameIds |-> Game(i, "FUT")]
  /\ healthy = TRUE
  /\ stateStore = EmptyStore
  /\ reviewsStore = EmptyStore
  /\ inv = [p \in Pollers |-> IdleInv]
  /\ prev = [p \in Pollers |-> NoPrev]
  /\ backfill = [b \in Backfills |-> IdleBackfill]
  /\ reader = IdleReader
  /\ refused = {}

\* ---- the environment ----------------------------------------------------
Tick ==
  /\ now < MaxTime
  /\ now' = now + 1
  /\ UNCHANGED <<refused, backfill, reader, apiKey, games, healthy, stateStore, reviewsStore, inv, prev>>

\* the league moves a game through its lifecycle; the club plays its games
\* in schedule order
GameAdvances(i) ==
  /\ \A j \in 1..(i - 1) : IsCompleted(games[j])
  /\ \/ games[i].gameState = "FUT" /\ games' = [games EXCEPT ![i] = Game(i, "LIVE")]
     \/ games[i].gameState = "LIVE" /\ games' = [games EXCEPT ![i].gameState = "FINAL"]
     \/ games[i].gameState = "FINAL" /\ games' = [games EXCEPT ![i].gameState = "OFF"]
  /\ UNCHANGED <<refused, backfill, reader, apiKey, now, healthy, stateStore, reviewsStore, inv, prev>>

\* an outage of the collaborators begins or ends
HealthChanges ==
  /\ healthy' = ~healthy
  /\ UNCHANGED <<refused, backfill, reader, apiKey, now, games, stateStore, reviewsStore, inv, prev>>

\* ---- the handler, one action per await ---------------------------------
\* lines 413-439: a new invocation reads nextGameTime and decides whether
\* to poll at all
CheckNextGameTime(p) ==
  /\ Finished(p)
  /\ prev' = [prev EXCEPT ![p] = Summary(inv[p])]
  /\ LET fresh == [IdleInv EXCEPT !.snapState = stateStore,
                                  !.snapReviews = reviewsStore]
         nextGameTime == StoreGetText(stateStore, "nextGameTime")
         msSinceStart == MsSinceStart(now, DateGetTime(nextGameTime))
     IN \/ /\ ~healthy
           /\ inv' = [inv EXCEPT ![p] = Throw(fresh)]
        \/ inv' = [inv EXCEPT ![p] =
             IF Truthy(nextGameTime) /\ NotStarted(msSinceStart)
             THEN Return(fresh, "Game not started")
             ELSE IF Truthy(nextGameTime) /\ StartedRecently(msSinceStart)
             THEN Return(fresh, "Game in progress")
             ELSE Goto(fresh, "getScheduleData")]
  /\ UNCHANGED <<refused, backfill, reader, apiKey, now, games, healthy, stateStore, reviewsStore>>

\* lines 442-459 with getScheduleData (200-229): fetch or res.json() may
\* reject; a non-ok response gives null
GetScheduleData(p) ==
  /\ inv[p].pc = "getScheduleData"
  /\ LET called == [inv[p] EXCEPT !.calls = Bump(@, "schedule")]
     IN \/ /\ ~healthy
           /\ inv' = [inv EXCEPT ![p] = Throw(called)]
        \/ \E status \in Statuses :
             /\ healthy => status = 200
             /\ LET schedule == IF ResOk(status) THEN ScheduleData(games) ELSE Null
                    polled == [called EXCEPT !.status = status, !.schedule = schedule]
                IN inv' = [inv EXCEPT ![p] =
                     IF schedule = Null
                     THEN Return(polled, "Could not fetch schedule")
                     ELSE IF schedule.gameInProgress # Null
                     THEN Return(polled, "Game in progress")
                     ELSE IF schedule.latestCompleted = Null
                     THEN Return(polled, "No completed games")
                     ELSE Goto(polled, "getLastGameId")]
  /\ UNCHANGED <<refused, backfill, reader, apiKey, now, games, healthy, stateStore, reviewsStore, prev>>

\* lines 460-470
GetLastGameId(p) ==
  /\ inv[p].pc = "getLastGameId"
  /\ LET schedule == inv[p].schedule
         currentGameKey == CurrentGameKey(schedule.latestCompleted)
         lastKnownGameKey == StoreGetText(stateStore, "lastGameId")
     IN \/ /\ ~healthy
           /\ inv' = [inv EXCEPT ![p] = Throw(@)]
        \/ inv' = [inv EXCEPT ![p] =
             IF SameGame(lastKnownGameKey, currentGameKey)
             THEN IF schedule.nextUpcoming # Null
                  THEN Goto(@, "setNextGameTimeSame")
                  ELSE Return(@, "No new games")
             ELSE Goto(@, "getExistingReview")]
  /\ UNCHANGED <<refused, backfill, reader, apiKey, now, games, healthy, stateStore, reviewsStore, prev>>

\* lines 465-469
SetNextGameTimeSame(p) ==
  /\ inv[p].pc = "setNextGameTimeSame"
  /\ \/ /\ ~healthy
        /\ inv' = [inv EXCEPT ![p] = Throw(@)]
        /\ UNCHANGED stateStore
     \/ /\ stateStore' = StoreSet(stateStore, "nextGameTime",
                                  inv[p].schedule.nextUpcoming.startTimeUTC)
        /\ inv' = [inv EXCEPT ![p] =
             Return([@ EXCEPT !.calls = Bump(@, "stateSet")], "No new games")]
  /\ UNCHANGED <<refused, backfill, reader, apiKey, now, games, healthy, reviewsStore, prev>>

\* lines 473-475
GetExistingReview(p) ==
  /\ inv[p].pc = "getExistingReview"
  /\ LET existingReview ==
           StoreGetJSON(reviewsStore, String(inv[p].schedule.latestCompleted.id))
     IN \/ /\ ~healthy
           /\ inv' = [inv EXCEPT ![p] = Throw(@)]
        \/ inv' = [inv EXCEPT ![p] =
             IF NoReview(existingReview)
             THEN Goto(@, "getGameData")
             ELSE Goto(@, "setLastGameId")]
  /\ UNCHANGED <<refused, backfill, reader, apiKey, now, games, healthy, stateStore, reviewsStore, prev>>

\* line 477 with getGameData (231-266): a network error of either fetch
\* rejects; a non-ok response only empties the data
GetGameData(p) ==
  /\ inv[p].pc = "getGameData"
  /\ LET called == [inv[p] EXCEPT !.calls = Bump(@, "detail")]
         latestGame == inv[p].schedule.latestCompleted
     IN \/ /\ ~healthy
           /\ inv' = [inv EXCEPT ![p] = Throw(called)]
        \/ \E landingStatus \in Statuses, boxscoreStatus \in Statuses :
             /\ healthy => landingStatus = 200 /\ boxscoreStatus = 200
             /\ LET landing == JsonIfOk(landingStatus, Landing(latestGame))
                    boxscore == JsonIfOk(boxscoreStatus, Boxscore(latestGame))
                IN inv' = [inv EXCEPT ![p] =
                     Goto([called EXCEPT
                             !.detail = [landing |-> landingStatus,
                                         boxscore |-> boxscoreStatus],
                             !.gameData = GameData(landing, boxscore)],
                          "generateReview")]
  /\ UNCHANGED <<refused, backfill, reader, apiKey, now, games, healthy, stateStore, reviewsStore, prev>>

\* lines 492-494 with generateReview (268-406): null when GEMINI_API_KEY is
\* missing, before anything else is done, or when the API call throws;
\* otherwise the generated text
GenerateReview(p) ==
  /\ inv[p].pc = "generateReview"
  /\ LET called ==
           [inv[p] EXCEPT !.calls = Bump(@, "generate"),
                          !.args = ReviewArgs(inv[p].schedule.latestCompleted,
                                              inv[p].gameData)]
         Continue(i) ==
           IF HasReview(i.review) THEN Goto(i, "setJSON") ELSE Goto(i, "setLastGameId")
     IN IF HasKey(apiKey)
        THEN \E review \in ReviewTexts \cup {NullText} :
               /\ LatestId(inv[p]) \in refused => review = NullText
               /\ (healthy /\ LatestId(inv[p]) \notin refused) => Truthy(review)
               /\ inv' = [inv EXCEPT ![p] =
                    Continue([called EXCEPT !.calls = Bump(@, "gemini"),
                                            !.review = review])]
        ELSE inv' = [inv EXCEPT ![p] = Continue([called EXCEPT !.review = NullText])]
  /\ UNCHANGED <<refused, backfill, reader, apiKey, now, games, healthy, stateStore, reviewsStore, prev>>

\* lines 495-514
SetJSON(p) ==
  /\ inv[p].pc = "setJSON"
  /\ LET latestGame == inv[p].schedule.latestCompleted
     IN \/ /\ ~healthy
           /\ inv' = [inv EXCEPT ![p] = Throw(@)]
           /\ UNCHANGED reviewsStore
        \/ /\ reviewsStore' =
                StoreSetJSON(reviewsStore, String(latestGame.id),
                             StoredGame(latestGame, inv[p].gameData.scoring,
                                        inv[p].review))
           /\ inv' = [inv EXCEPT ![p] =
                Goto([@ EXCEPT !.calls = Bump(@, "reviewSet")], "setLastGameId")]
  /\ UNCHANGED <<refused, backfill, reader, apiKey, now, games, healthy, stateStore, prev>>

\* line 519
SetLastGameId(p) ==
  /\ inv[p].pc = "setLastGameId"
  /\ LET schedule == inv[p].schedule
     IN \/ /\ ~healthy
           /\ inv' = [inv EXCEPT ![p] = Throw(@)]
           /\ UNCHANGED stateStore
        \/ /\ stateStore' = StoreSet(stateStore, "lastGameId",
                                     CurrentGameKey(schedule.latestCompleted))
           /\ inv' = [inv EXCEPT ![p] =
                Goto(LeaveBlock([@ EXCEPT !.calls = Bump(@, "stateSet")]),
                     IF schedule.nextUpcoming # Null
                     THEN "setNextGameTime" ELSE "triggerRebuild")]
  /\ UNCHANGED <<refused, backfill, reader, apiKey, now, games, healthy, reviewsStore, prev>>

\* lines 520-522
SetNextGameTime(p) ==
  /\ inv[p].pc = "setNextGameTime"
  /\ \/ /\ ~healthy
        /\ inv' = [inv EXCEPT ![p] = Throw(@)]
        /\ UNCHANGED stateStore
     \/ /\ stateStore' = StoreSet(stateStore, "nextGameTime",
                                  inv[p].schedule.nextUpcoming.startTimeUTC)
        /\ inv' = [inv EXCEPT ![p] =
             Goto([@ EXCEPT !.calls = Bump(@, "stateSet")], "triggerRebuild")]
  /\ UNCHANGED <<refused, backfill, reader, apiKey, now, games, healthy, reviewsStore, prev>>

\* lines 523-526 with triggerRebuild (408-410): the POST rejects on a
\* network error; its response status is not looked at
TriggerRebuild(p) ==
  /\ inv[p].pc = "triggerRebuild"
  /\ LET called == [inv[p] EXCEPT !.calls = Bump(@, "rebuild")]
     IN \/ /\ ~healthy
           /\ inv' = [inv EXCEPT ![p] = Throw(called)]
        \/ inv' = [inv EXCEPT ![p] = Return(called, "Processed game")]
  /\ UNCHANGED <<refused, backfill, reader, apiKey, now, games, healthy, stateStore, reviewsStore, prev>>

\* ---- the backfill function, one action per await ------------------------
\* page.tsx 606 with getCompletedGames (495-505)
BackfillGetCompletedGames(b) ==
  /\ BackfillFinished(b)
  /\ \/ /\ ~healthy
        /\ backfill' = [backfill EXCEPT ![b] = BackfillThrow(@)]
     \/ \E status \in Statuses :
          /\ healthy => status = 200
          /\ backfill' = [backfill EXCEPT ![b] =
               [IdleBackfill EXCEPT
                  !.pc = "list",
                  !.games = IF ResOk(status) THEN SelectSeq(games, IsCompleted)
                                             ELSE <<>>]]
  /\ UNCHANGED <<refused, reader, apiKey, now, games, healthy, stateStore, reviewsStore, inv, prev>>

\* page.tsx 610-629
BackfillList(b) ==
  /\ backfill[b].pc = "list"
  /\ LET storedIds == DOMAIN reviewsStore
         missingGames ==
           SelectSeq(backfill[b].games, LAMBDA g : String(g.id) \notin storedIds)
         batch == Slice(missingGames, 0, BATCH_SIZE)
         listed == [backfill[b] EXCEPT !.storedIds = storedIds,
                                       !.missingGames = missingGames]
     IN \/ /\ ~healthy
           /\ backfill' = [backfill EXCEPT ![b] = BackfillThrow(@)]
        \/ backfill' = [backfill EXCEPT ![b] =
             IF Len(missingGames) = 0
             THEN [listed EXCEPT
                     !.pc = "done",
                     !.response = [message |-> "All games already have reviews!",
                                   remaining |-> 0,
                                   storedGameIds |-> storedIds]]
             ELSE [listed EXCEPT !.pc = "getGameData", !.batch = batch]]
  /\ UNCHANGED <<refused, reader, apiKey, now, games, healthy, stateStore, reviewsStore, inv, prev>>

\* page.tsx 635-640 with getGameData (507-522), for the whole batch
BackfillGetGameData(b) ==
  /\ backfill[b].pc = "getGameData"
  /\ LET batch == backfill[b].batch
     IN \/ /\ ~healthy
           /\ backfill' = [backfill EXCEPT ![b] = BackfillThrow(@)]
        \/ \E statuses \in [1..Len(batch) -> Statuses \X Statuses] :
             /\ healthy => \A k \in 1..Len(batch) : statuses[k] = <<200, 200>>
             /\ backfill' = [backfill EXCEPT ![b] =
                  [@ EXCEPT
                     !.pc = "generateReview",
                     !.k = 1,
                     !.gameData =
                        [k \in 1..Len(batch) |->
                           BackfillGameData(
                             JsonIfOk(statuses[k][1], Landing(batch[k])),
                             JsonIfOk(statuses[k][2], Boxscore(batch[k])))]]]
  /\ UNCHANGED <<refused, reader, apiKey, now, games, healthy, stateStore, reviewsStore, inv, prev>>

\* page.tsx 645-666 with generateReview (524-599)
BackfillGenerateReview(b) ==
  /\ backfill[b].pc = "generateReview"
  /\ LET game == backfill[b].batch[backfill[b].k]
         called == [backfill[b] EXCEPT !.generated = @ \cup {game.id}]
         Continue(i) ==
           IF ~HasReview(i.review)
           THEN NextGame(Push(i, FALSE, "Failed to generate review"))
           ELSE [i EXCEPT !.pc = "setJSON"]
     IN IF HasKey(apiKey)
        THEN \E review \in ReviewTexts \cup {NullText} :
               /\ game.id \in refused => review = NullText
               /\ (healthy /\ game.id \notin refused) => Truthy(review)
               /\ backfill' = [backfill EXCEPT ![b] =
                    Continue([called EXCEPT !.review = review])]
        ELSE backfill' = [backfill EXCEPT ![b] =
               Continue([called EXCEPT !.review = NullText])]
  /\ UNCHANGED <<refused, reader, apiKey, now, games, healthy, stateStore, reviewsStore, inv, prev>>

\* page.tsx 668-687; a rejection is caught at 698-701
BackfillSetJSON(b) ==
  /\ backfill[b].pc = "setJSON"
  /\ LET game == backfill[b].batch[backfill[b].k]
         called == [backfill[b] EXCEPT !.written = @ \cup {game.id}]
     IN \/ /\ ~healthy
           /\ backfill' = [backfill EXCEPT ![b] = NextGame(Push(called, FALSE, "Error"))]
           /\ UNCHANGED reviewsStore
        \/ /\ reviewsStore' =
                StoreSetJSON(reviewsStore, String(game.id),
                             StoredGame(game, backfill[b].gameData[backfill[b].k].scoring,
                                        backfill[b].review))
           /\ backfill' = [backfill EXCEPT ![b] = [called EXCEPT !.pc = "verify"]]
  /\ UNCHANGED <<refused, reader, apiKey, now, games, healthy, stateStore, inv, prev>>

\* page.tsx 690-697; a rejection is caught at 698-701
BackfillVerify(b) ==
  /\ backfill[b].pc = "verify"
  /\ LET game == backfill[b].batch[backfill[b].k]
         verification == StoreGetJSON(reviewsStore, String(game.id))
     IN \/ /\ ~healthy
           /\ backfill' = [backfill EXCEPT ![b] = NextGame(Push(@, FALSE, "Error"))]
        \/ backfill' = [backfill EXCEPT ![b] =
             IF TruthyObject(verification)
             THEN NextGame(Push(@, TRUE, ""))
             ELSE NextGame(Push(@, FALSE, "Save did not persist"))]
  /\ UNCHANGED <<refused, reader, apiKey, now, games, healthy, stateStore, reviewsStore, inv, prev>>

\* page.tsx 705-721
BackfillRelist(b) ==
  /\ backfill[b].pc = "relist"
  /\ LET remaining == Len(backfill[b].missingGames) - Len(backfill[b].batch)
     IN \/ /\ ~healthy
           /\ backfill' = [backfill EXCEPT ![b] = BackfillThrow(@)]
        \/ backfill' = [backfill EXCEPT ![b] =
             [@ EXCEPT
                !.pc = "done",
                !.response = [message |-> IF remaining > 0 THEN "Processed"
                                                           ELSE "Backfill complete!",
                              remaining |-> remaining,
                              storedGameIds |-> DOMAIN reviewsStore]]]
  /\ UNCHANGED <<refused, reader, apiKey, now, games, healthy, stateStore, reviewsStore, inv, prev>>

BackfillStep(b) ==
  \/ BackfillGetCompletedGames(b)
  \/ BackfillList(b)
  \/ BackfillGetGameData(b)
  \/ BackfillGenerateReview(b)
  \/ BackfillSetJSON(b)
  \/ BackfillVerify(b)
  \/ BackfillRelist(b)

\* ---- page builds reading through the storage library -------------------
\* getGameReview(gameId)
ReadGameReviewIn(gameId, isNetlifyEnvironment, storeOk) ==
  /\ reader.pc \in {"idle", "done"}
  /\ healthy => storeOk
  /\ LET call == [IdleReader EXCEPT !.op = "getGameReview",
                                    !.keys = <<String(gameId)>>]
     IN reader' =
          IF isNetlifyEnvironment /\ ~storeOk
          THEN Catch(call, Null)
          ELSE Returned(call, GetGameReview(reviewsStore, gameId,
                                            isNetlifyEnvironment, storeOk))
  /\ UNCHANGED <<refused, backfill, apiKey, now, games, healthy, stateStore, reviewsStore, inv, prev>>

ReadGameReview ==
  \E gameId \in GameIds, isNetlifyEnvironment \in BOOLEAN, storeOk \in BOOLEAN :
    ReadGameReviewIn(gameId, isNetlifyEnvironment, storeOk)

\* getAllGameIds()
ReadAllGameIdsIn(isNetlifyEnvironment, storeOk) ==
  /\ reader.pc \in {"idle", "done"}
  /\ healthy => storeOk
  /\ LET call == [IdleReader EXCEPT !.op = "getAllGameIds"]
     IN reader' =
          IF ~isNetlifyEnvironment THEN Returned(call, <<>>)
          ELSE IF ~storeOk THEN Catch(call, <<>>)
          ELSE Returned(call, StoreList(reviewsStore))
  /\ UNCHANGED <<refused, backfill, apiKey, now, games, healthy, stateStore, reviewsStore, inv, prev>>

ReadAllGameIds ==
  \E isNetlifyEnvironment \in BOOLEAN, storeOk \in BOOLEAN :
    ReadAllGameIdsIn(isNetlifyEnvironment, storeOk)

\* getAllGameReviews() up to store.list() (storage.ts 53-60)
ReadAllGameReviewsListIn(isNetlifyEnvironment, storeOk) ==
  /\ reader.pc \in {"idle", "done"}
  /\ healthy => storeOk
  /\ LET call == [IdleReader EXCEPT !.op = "getAllGameReviews"]
     IN reader' =
          IF ~isNetlifyEnvironment THEN Returned(call, <<>>)
          ELSE IF ~storeOk THEN Catch(call, <<>>)
          ELSE [call EXCEPT !.pc = "gets", !.keys = StoreList(reviewsStore)]
  /\ UNCHANGED <<refused, backfill, apiKey, now, games, healthy, stateStore, reviewsStore, inv, prev>>

ReadAllGameReviewsList ==
  \E isNetlifyEnvironment \in BOOLEAN, storeOk \in BOOLEAN :
    ReadAllGameReviewsListIn(isNetlifyEnvironment, storeOk)

\* getAllGameReviews() from the gets on (storage.ts 62-76): one rejected
\* get rejects Promise.all and the catch returns []
ReadAllGameReviewsGetsIn(getsOk) ==
  /\ reader.pc = "gets"
  /\ healthy => \A k \in 1..Len(reader.keys) : getsOk[k]
  /\ LET gotten == [k \in 1..Len(reader.keys) |->
                      StoreGetJSON(reviewsStore, reader.keys[k])]
     IN reader' =
          IF \E k \in 1..Len(reader.keys) : ~getsOk[k]
          THEN Catch(reader, <<>>)
          ELSE Returned(reader, AllGameReviews(gotten))
  /\ UNCHANGED <<refused, backfill, apiKey, now, games, healthy, stateStore, reviewsStore, inv, prev>>

ReadAllGameReviewsGets ==
  \E getsOk \in [1..Len(reader.keys) -> BOOLEAN] : ReadAllGameReviewsGetsIn(getsOk)

ReaderStep ==
  \/ ReadGameReview
  \/ ReadAllGameIds
  \/ ReadAllGameReviewsList
  \/ ReadAllGameReviewsGets

\* saveGameReview(game) (storage.ts 24-36), for the record of a completed
\* game with a review; nothing in the repository calls it
SaveGameReviewIn(g, isNetlifyEnvironment, storeOk) ==
  /\ reader.pc \in {"idle", "done"}
  /\ IsCompleted(games[g])
  /\ healthy => storeOk
  /\ LET game == StoredGame(games[g], Landing(games[g]).summary.scoring, "recap")
         call == [IdleReader EXCEPT !.op = "saveGameReview",
                                    !.keys = <<String(game.gameId)>>]
     IN IF ~isNetlifyEnvironment
        THEN reader' = Returned(call, Null) /\ UNCHANGED reviewsStore
        ELSE IF ~storeOk
        THEN reader' = Catch(call, Null) /\ UNCHANGED reviewsStore
        ELSE /\ reviewsStore' = StoreSetJSON(reviewsStore, String(game.gameId), game)
             /\ reader' = Returned(call, Null)
  /\ UNCHANGED <<refused, backfill, apiKey, now, games, healthy, stateStore, inv, prev>>

SaveGameReview ==
  \E g \in GameIds, isNetlifyEnvironment \in BOOLEAN, storeOk \in BOOLEAN :
    SaveGameReviewIn(g, isNetlifyEnvironment, storeOk)

Step(p) ==
  \/ GetScheduleData(p)
  \/ GetLastGameId(p)
  \/ SetNextGameTimeSame(p)
  \/ GetExistingReview(p)
  \/ GetGameData(p)
  \/ GenerateReview(p)
  \/ SetJSON(p)
  \/ SetLastGameId(p)
  \/ SetNextGameTime(p)
  \/ TriggerRebuild(p)

\* ---- specifications -----------------------------------------------------
\* the scheduled function, one invocation at a time
Next ==
  \/ Tick
  \/ \E i \in GameIds : GameAdvances(i)
  \/ HealthChanges
  \/ CheckNextGameTime(1)
  \/ Step(1)

Spec == Init /\ [][Next]_vars

\* the same, with a clock that keeps running, a scheduler that keeps
\* invoking the function and invocations that run on
FairSpec ==
  Spec /\ WF_vars(Tick) /\ WF_vars(CheckNextGameTime(1)) /\ WF_vars(Step(1))

\* invocations that overlap, within one reading of the 30-minute clock and
\* while every collaborator answers
ConcNext ==
  \/ \E i \in GameIds : GameAdvances(i)
  \/ \E p \in Pollers : CheckNextGameTime(p)
  \/ \E p \in Pollers : Step(p)

ConcSpec == Init /\ [][ConcNext]_vars

\* the function is deployed when the first game of the season is over,
\* whichever side the club was on and whatever the schedule shows as scores
VerdictInit ==
  /\ apiKey = "key"
  /\ now = StartInstant(1) + RecentStartWindow
  /\ \E first \in CompletedGames(1) :
       games = [i \in GameIds |-> IF i = 1 THEN first ELSE Game(i, "FUT")]
  /\ healthy = TRUE
  /\ stateStore = EmptyStore
  /\ reviewsStore = EmptyStore
  /\ inv = [p \in Pollers |-> IdleInv]
  /\ prev = [p \in Pollers |-> NoPrev]
  /\ backfill = [b \in Backfills |-> IdleBackfill]
  /\ reader = IdleReader
  /\ refused = {}

\* one invocation at a time, within one reading of the 30-minute clock
VerdictNext ==
  \/ \E i \in GameIds : GameAdvances(i)
  \/ HealthChanges
  \/ CheckNextGameTime(1)
  \/ Step(1)

VerdictSpec == VerdictInit /\ [][VerdictNext]_vars

\* the function is deployed with or without GEMINI_API_KEY: set, not set,
\* or set to the empty string
KeyInit ==
  /\ apiKey \in {"key", NullText, ""}
  /\ now = 0
  /\ games = [i \in GameIds |-> Game(i, "FUT")]
  /\ healthy = TRUE
  /\ stateStore = EmptyStore
  /\ reviewsStore = EmptyStore
  /\ inv = [p \in Pollers |-> IdleInv]
  /\ prev = [p \in Pollers |-> NoPrev]
  /\ backfill = [b \in Backfills |-> IdleBackfill]
  /\ reader = IdleReader
  /\ refused = {}

KeySpec == KeyInit /\ [][Next]_vars

\* the runtime discards an invocation that has ended
PollerEnds ==
  /\ inv[1].pc \in {"done", "threw"}
  /\ inv' = [inv EXCEPT ![1] = IdleInv]
  /\ prev' = [prev EXCEPT ![1] = NoPrev]
  /\ UNCHANGED <<refused, backfill, reader, apiKey, now, games, healthy, stateStore, reviewsStore>>

BackfillEnds ==
  /\ backfill[1].pc \in {"done", "threw"}
  /\ backfill' = [backfill EXCEPT ![1] = IdleBackfill]
  /\ UNCHANGED <<refused, reader, apiKey, now, games, healthy, stateStore, reviewsStore, inv, prev>>

ReaderEnds ==
  /\ reader.pc = "done"
  /\ reader' = IdleReader
  /\ UNCHANGED <<refused, backfill, apiKey, now, games, healthy, stateStore, reviewsStore, inv, prev>>

\* the whole site within one reading of the clock: invocations of the
\* poller and of the backfill function and calls of the storage library
\* from page builds, in any sequence, one after the other
SiteNext ==
  \/ \E i \in GameIds : GameAdvances(i)
  \/ HealthChanges
  \/ /\ backfill[1].pc = "idle" /\ reader.pc = "idle"
     /\ CheckNextGameTime(1) \/ Step(1)
  \/ /\ inv[1].pc = "idle" /\ reader.pc = "idle"
     /\ BackfillStep(1)
  \/ /\ inv[1].pc = "idle" /\ backfill[1].pc = "idle"
     /\ ReaderStep
  \/ PollerEnds
  \/ BackfillEnds
  \/ ReaderEnds

SiteSpec == Init /\ [][SiteNext]_vars

\* the function is deployed on a schedule whose games are in any states
ClassifyInit ==
  /\ apiKey = "key"
  /\ now = 0
  /\ \E states \in [GameIds -> GameStates] :
       games = [i \in GameIds |-> Game(i, states[i])]
  /\ healthy = TRUE
  /\ stateStore = EmptyStore
  /\ reviewsStore = EmptyStore
  /\ inv = [p \in Pollers |-> IdleInv]
  /\ prev = [p \in Pollers |-> NoPrev]
  /\ backfill = [b \in Backfills |-> IdleBackfill]
  /\ reader = IdleReader
  /\ refused = {}

ClassifySpec == ClassifyInit /\ [][VerdictNext]_vars

\* the league replays a completed game on another day and keeps the game's
\* id: the schedule shows the id with the new gameDate
GameRescheduled(i) ==
  /\ IsCompleted(games[i])
  /\ games[i].gameDate = GameDate(i)
  /\ games' = [games EXCEPT ![i].gameDate = MakeupDate(i)]
  /\ UNCHANGED <<refused, backfill, reader, apiKey, now, healthy, stateStore, reviewsStore, inv, prev>>

\* the scheduled function over a season in which games are replayed, while
\* every collaborator answers
RescheduleNext ==
  \/ Tick
  \/ \E i \in GameIds : GameAdvances(i)
  \/ \E i \in GameIds : GameRescheduled(i)
  \/ CheckNextGameTime(1)
  \/ Step(1)

RescheduleSpec == Init /\ [][RescheduleNext]_vars

\* the backfill function is called, time after time, over a season of
\* SeasonGames games of which the first few are completed and none has a
\* record yet; the text-generation API refuses some of the games for good
BackfillInit ==
  /\ apiKey = "key"
  /\ now = 0
  /\ \E completed \in 0..SeasonGames :
       games = [i \in 1..SeasonGames |->
                  Game(i, IF i <= completed THEN "OFF" ELSE "FUT")]
  /\ healthy = TRUE
  /\ stateStore = EmptyStore
  /\ reviewsStore = EmptyStore
  /\ inv = [p \in Pollers |-> IdleInv]
  /\ prev = [p \in Pollers |-> NoPrev]
  /\ backfill = [b \in Backfills |-> IdleBackfill]
  /\ reader = IdleReader
  /\ refused \in SUBSET (1..SeasonGames)

BackfillNext ==
  \/ HealthChanges
  \/ BackfillStep(1)
  \/ BackfillEnds

BackfillSpec == BackfillInit /\ [][BackfillNext]_vars

\* the same, with calls that run on and are repeated
FairBackfillSpec ==
  BackfillSpec /\ WF_vars(BackfillStep(1)) /\ WF_vars(BackfillEnds)

\* one invocation of the poller and one call of the backfill function by
\* each of its callers, overlapping in any way, within one reading of the
\* clock and while every collaborator answers
OverlapNext ==
  \/ \E i \in GameIds : GameAdvances(i)
  \/ /\ inv[1].pc # "done"
     /\ CheckNextGameTime(1) \/ Step(1)
  \/ \E b \in Backfills :
       /\ backfill[b].pc # "done"
       /\ BackfillStep(b)

OverlapSpec == Init /\ [][OverlapNext]_vars

\* the storage library on its own: games are played, the store fails and
\* recovers, and the library's functions are called one after the other
LibraryNext ==
  \/ \E i \in GameIds : GameAdvances(i)
  \/ HealthChanges
  \/ ReaderStep
  \/ SaveGameReview
  \/ ReaderEnds

LibrarySpec == Init /\ [][LibraryNext]_vars

\* ---- claims -------------------------------------------------------------
HasRecord(g) == String(g) \in DOMAIN reviewsStore

\* the stores are as invocation 1 found them
StoresAsFound ==
  stateStore = inv[1].snapState /\ reviewsStore = inv[1].snapReviews

\* invocation 1 has ended and the invocation before it returned "Processed
\* game" for game g, which is still the latest completed game this one saw
SecondRun(g) ==
  /\ prev[1].latest = g
  /\ inv[1].pc = "done"
  /\ inv[1].schedule # Null => LatestId(inv[1]) = g

C2_NullReviewKeepsLastGameId ==
  (inv[1].pc = "done" /\ inv[1].calls.generate = 1 /\ ~Truthy(inv[1].review)) =>
    /\ reviewsStore = inv[1].snapReviews
    /\ StoreGetText(stateStore, "lastGameId") =
         StoreGetText(inv[1].snapState, "lastGameId")

\* generateReview has just returned null for game g
GenFailedFor(g) ==
  /\ inv[1].pc = "setLastGameId"
  /\ inv[1].calls.generate = 1
  /\ ~Truthy(inv[1].review)
  /\ LatestId(inv[1]) = g

\* no game is in progress and g is the latest completed game
Stable(g) ==
  /\ \A i \in GameIds : games[i].gameState \in {"OFF", "FINAL", "FUT"}
  /\ games[g].gameState \in {"OFF", "FINAL"}
  /\ \A i \in GameIds : i > g => games[i].gameState = "FUT"

\* C3: if generateReview fails for a game and from some time on no
\* collaborator fails, no game is in progress and the game stays the latest
\* completed one, then the repeated invocations eventually store a record
\* for it.
C3_RetryEventuallyStores ==
  \A g \in GameIds :
    [](GenFailedFor(g) => (<>[](healthy /\ Stable(g)) => <>HasRecord(g)))

\* C4: once a record is stored under a game id, no step of a later
\* invocation calls getGameData or generateReview for that id or sets that
\* key, and the record stays as it is.
C4_StoredRecordNeverReworked ==
  [][\A k \in DOMAIN reviewsStore :
       /\ k \in DOMAIN reviewsStore'
       /\ reviewsStore'[k] = reviewsStore[k]
       /\ \A p \in Pollers :
            String(LatestId(inv[p])) = k =>
              ~(GetGameData(p) \/ GenerateReview(p) \/ SetJSON(p))]_vars

\* an invocation found the record of the new latest completed game and
\* went on without fetching or generating
C4_Witness ==
  \E g \in GameIds :
    /\ HasRecord(g)
    /\ inv[1].pc = "setLastGameId"
    /\ LatestId(inv[1]) = g
    /\ inv[1].calls.detail = 0

\* C5: of the overlapping invocations that work on the same game, at most
\* one gets a text from generateReview and at most one sets the record.
C5_OverlapGeneratesOnce ==
  \A g \in GameIds :
    /\ Cardinality({p \in Pollers :
                      LatestId(inv[p]) = g /\ Truthy(inv[p].review)}) <= 1
    /\ Cardinality({p \in Pollers :
                      LatestId(inv[p]) = g /\ inv[p].calls.reviewSet > 0}) <= 1

\* C6: no invocation ends by throwing to its caller.
C6_NeverThrows == \A p \in Pollers : inv[p].pc # "threw"

\* C7: an invocation that starts while nextGameTime is present and in the
\* future ends at once: no call to the schedule endpoint, no detail fetch,
\* no generation, no write to either store, no rebuild.
C7_NoPollBeforeStart ==
  [][(/\ CheckNextGameTime(1)
      /\ "nextGameTime" \in DOMAIN stateStore
      /\ now < DateGetTime(stateStore["nextGameTime"]))
     => /\ inv'[1].pc \in {"done", "threw"}
        /\ inv'[1].calls = NoCalls
        /\ stateStore' = stateStore
        /\ reviewsStore' = reviewsStore]_vars

C7_Witness ==
  /\ inv[1].pc = "done"
  /\ inv[1].response = "Game not started"
  /\ inv[1].calls = NoCalls
  /\ "nextGameTime" \in DOMAIN stateStore
  /\ now < DateGetTime(stateStore["nextGameTime"])

\* C8: an invocation that starts 0 to 90 minutes (exclusive) after
\* nextGameTime ends at once without calling the schedule endpoint or
\* writing; an invocation goes on to call the schedule endpoint only if
\* nextGameTime is absent or at least 90 minutes past.
C8_NoPollRecentStart ==
  [][CheckNextGameTime(1) =>
       LET present == "nextGameTime" \in DOMAIN stateStore
           since == now - DateGetTime(stateStore["nextGameTime"])
       IN /\ (present /\ 0 <= since /\ since < RecentStartWindow) =>
               /\ inv'[1].pc \in {"done", "threw"}
               /\ inv'[1].calls = NoCalls
               /\ stateStore' = stateStore
               /\ reviewsStore' = reviewsStore
          /\ inv'[1].pc = "getScheduleData" =>
               (~present \/ since >= RecentStartWindow)]_vars

C8_Witness ==
  /\ inv[1].pc = "done"
  /\ inv[1].response = "Game in progress"
  /\ inv[1].calls = NoCalls
  /\ "nextGameTime" \in DOMAIN stateStore
  /\ now - DateGetTime(stateStore["nextGameTime"]) \in 0..(RecentStartWindow - 1)

\* the invocation ends with both stores as it found them and without
\* detail fetch, generation, write or rebuild
EndsWithoutChange(i) ==
  /\ i.pc = "done"
  /\ i.calls.detail = 0 /\ i.calls.generate = 0 /\ i.calls.rebuild = 0
  /\ i.calls.stateSet = 0 /\ i.calls.reviewSet = 0

\* C9: when the schedule fetched by an invocation holds a game whose state
\* is none of OFF, FINAL, FUT, the invocation ends there: lastGameId,
\* nextGameTime and the reviews store are as it found them, and there is no
\* detail fetch, no generation and no rebuild.
C9_InProgressNoChange ==
  [][(/\ GetScheduleData(1)
      /\ inv'[1].status = 200
      /\ \E i \in GameIds : games[i].gameState \notin {"OFF", "FINAL", "FUT"})
     => /\ EndsWithoutChange(inv'[1])
        /\ stateStore' = inv[1].snapState
        /\ reviewsStore' = inv[1].snapReviews]_vars

\* ... with a completed game that has no record and is not lastGameId
C9_Witness ==
  /\ inv[1].pc = "done"
  /\ inv[1].status = 200
  /\ inv[1].response = "Game in progress"
  /\ inv[1].schedule.latestCompleted # Null
  /\ ~HasRecord(LatestId(inv[1]))
  /\ StoreGetText(stateStore, "lastGameId") #
       CurrentGameKey(inv[1].schedule.latestCompleted)
  /\ StoresAsFound

\* C10: when the schedule endpoint answers with a non-success status, or
\* the schedule holds no completed game, the invocation ends there:
\* lastGameId, nextGameTime and the reviews store are as it found them and
\* no rebuild is triggered.
C10_NoScheduleNoChange ==
  [][(/\ GetScheduleData(1)
      /\ \/ inv'[1].status \in Statuses \ (200..299)
         \/ /\ inv'[1].status = 200
            /\ \A i \in GameIds : games[i].gameState \notin {"OFF", "FINAL"})
     => /\ EndsWithoutChange(inv'[1])
        /\ stateStore' = inv[1].snapState
        /\ reviewsStore' = inv[1].snapReviews]_vars

\* a non-success answer while a completed game waits to be processed
C10_Witness ==
  /\ inv[1].pc = "done"
  /\ inv[1].status = 503
  /\ inv[1].response = "Could not fetch schedule"
  /\ \E i \in GameIds : games[i].gameState \in {"OFF", "FINAL"} /\ ~HasRecord(i)
  /\ StoresAsFound

\* C11: when the key of the latest completed game is the persisted
\* lastGameId, the invocation fetches no detail, generates nothing, writes
\* no review and triggers no rebuild; it sets nextGameTime to the start of
\* the schedule's next upcoming game when there is one and otherwise
\* leaves both stores as they were.
C11_SameKeyOnlyRefreshes ==
  [][/\ (/\ GetLastGameId(1)
         /\ "lastGameId" \in DOMAIN stateStore
         /\ stateStore["lastGameId"] =
              String(LatestId(inv[1])) \o "-" \o inv[1].schedule.latestCompleted.gameDate)
        => /\ inv'[1].pc \in {"setNextGameTimeSame", "done", "threw"}
           /\ inv'[1].pc = "setNextGameTimeSame" => inv[1].schedule.nextUpcoming # Null
           /\ inv'[1].pc = "done" =>
                /\ inv[1].schedule.nextUpcoming = Null
                /\ EndsWithoutChange(inv'[1])
                /\ stateStore' = inv[1].snapState
                /\ reviewsStore' = inv[1].snapReviews
     /\ (SetNextGameTimeSame(1) /\ inv'[1].pc = "done")
        => /\ inv'[1].calls.detail = 0 /\ inv'[1].calls.generate = 0
           /\ inv'[1].calls.reviewSet = 0 /\ inv'[1].calls.rebuild = 0
           /\ reviewsStore' = inv[1].snapReviews
           /\ DOMAIN stateStore' = DOMAIN inv[1].snapState \cup {"nextGameTime"}
           /\ stateStore'["nextGameTime"] = inv[1].schedule.nextUpcoming.startTimeUTC
           /\ stateStore'["lastGameId"] = inv[1].snapState["lastGameId"]]_vars

\* nextGameTime was missing and the invocation put it back
C11_Witness ==
  /\ inv[1].pc = "done"
  /\ inv[1].response = "No new games"
  /\ inv[1].calls.stateSet = 1
  /\ "nextGameTime" \notin DOMAIN inv[1].snapState
  /\ "nextGameTime" \in DOMAIN stateStore

\* C12: an invocation that processed a new latest completed game and
\* returned ends with lastGameId equal to that game's id-date key, with
\* nextGameTime equal to the next upcoming game's start when the schedule
\* has one, and with exactly one POST to the build hook.
C12_ProcessedUpdatesState ==
  (inv[1].pc = "done" /\ inv[1].response = "Processed game") =>
    LET latestGame == inv[1].schedule.latestCompleted
        nextUpcoming == inv[1].schedule.nextUpcoming
    IN /\ "lastGameId" \in DOMAIN stateStore
       /\ stateStore["lastGameId"] = String(latestGame.id) \o "-" \o latestGame.gameDate
       /\ nextUpcoming # Null =>
            /\ "nextGameTime" \in DOMAIN stateStore
            /\ stateStore["nextGameTime"] = nextUpcoming.startTimeUTC
       /\ nextUpcoming = Null =>
            StoreGetText(stateStore, "nextGameTime") =
              StoreGetText(inv[1].snapState, "nextGameTime")
       /\ inv[1].calls.rebuild = 1

C12_Witness ==
  /\ inv[1].pc = "done"
  /\ inv[1].response = "Processed game"
  /\ inv[1].schedule.nextUpcoming # Null
  /\ inv[1].calls.rebuild = 1
  /\ Truthy(inv[1].review)
  /\ StoreGetText(inv[1].snapState, "lastGameId") # stateStore["lastGameId"]
  /\ StoreGetText(inv[1].snapState, "nextGameTime") # stateStore["nextGameTime"]

\* C13: every stored record carries the verdict of its game: isLeafsHome
\* is (homeTeam.abbrev = "TOR"), leafsScore and opponentScore are the
\* scores of the club's and the other side with a missing score read as 0,
\* and didLose is (isLeafsHome ? home < away : away < home), so that equal
\* scores, both missing included, give didLose = FALSE; the home page
\* computes the same verdict for the latest completed game.
ScoreRead(team) == IF team.score = <<>> THEN 0 ELSE team.score[1]

ExpectedLoss(game) ==
  IF game.homeTeam.abbrev = "TOR"
  THEN ScoreRead(game.homeTeam) < ScoreRead(game.awayTeam)
  ELSE ScoreRead(game.awayTeam) < ScoreRead(game.homeTeam)

C13_VerdictCorrect ==
  /\ \A g \in GameIds :
       HasRecord(g) =>
         LET r == reviewsStore[String(g)]
             home == games[g].homeTeam
             away == games[g].awayTeam
         IN /\ r.isLeafsHome = (home.abbrev = "TOR")
            /\ r.didLose = ExpectedLoss(games[g])
            /\ r.leafsScore = ScoreRead(IF r.isLeafsHome THEN home ELSE away)
            /\ r.opponentScore = ScoreRead(IF r.isLeafsHome THEN away ELSE home)
            /\ ScoreRead(home) = ScoreRead(away) => ~r.didLose
  /\ \A g \in GameIds :
       IsCompleted(games[g]) =>
         /\ HomeVerdict(games[g]).didLose = ExpectedLoss(games[g])
         /\ HomeVerdict(games[g]).isLeafsHome = (games[g].homeTeam.abbrev = "TOR")

\* a stored loss on the road where the club's score was missing
C13_Witness ==
  /\ HasRecord(1)
  /\ games[1].awayTeam.abbrev = "TOR"
  /\ games[1].awayTeam.score = NoScore
  /\ games[1].homeTeam.score = <<1>>
  /\ reviewsStore["1"].didLose
  /\ reviewsStore["1"].leafsScore = 0

\* C14: the three filters of getScheduleData (completed: OFF or FINAL,
\* upcoming: FUT, live: anything else) put every game of the schedule in
\* exactly one of the three lists: the lists are pairwise disjoint and
\* together hold every game, whatever the games' states.
Elements(seq) == {seq[k] : k \in 1..Len(seq)}

C14_ClassificationPartitions ==
  LET c == Classify(games)
      completed == Elements(c.completedGames)
      upcoming == Elements(c.upcomingGames)
      live == Elements(c.liveGames)
  IN /\ completed \cup upcoming \cup live = Elements(games)
     /\ completed \cap upcoming = {}
     /\ completed \cap live = {}
     /\ upcoming \cap live = {}
     /\ Len(c.completedGames) + Len(c.upcomingGames) + Len(c.liveGames) = Len(games)
     /\ \A g \in completed : g.gameState \in {"OFF", "FINAL"}
     /\ \A g \in upcoming : g.gameState = "FUT"
     /\ \A g \in live : g.gameState \notin {"OFF", "FINAL", "FUT"}

\* the handler polled a schedule with a game in a state the code does not
\* name and took it for the game in progress, next to a completed game
C14_Witness ==
  /\ inv[1].schedule # Null
  /\ inv[1].schedule.gameInProgress # Null
  /\ inv[1].schedule.gameInProgress.gameState = "CRIT"
  /\ inv[1].schedule.gameInProgress \in Elements(games)
  /\ inv[1].schedule.latestCompleted # Null

\* the poller has just stored the record of a home game against Boston
\* that ended 4-2
StoredHomeWin ==
  /\ SetJSON(1)
  /\ inv'[1].pc = "setLastGameId"
  /\ inv[1].schedule.latestCompleted.homeTeam = Team("TOR", "Toronto", <<4>>)
  /\ inv[1].schedule.latestCompleted.awayTeam = Team("BOS", "Boston", <<2>>)

\* C15 as stated: right after the poller stored a home game that ended
\* TOR 4, BOS 2, get(String(id)) returns a record whose gameId is the string
\* form of the id, with didLose false, leafsScore 4, opponentScore 2,
\* opponent "BOS" and isLeafsHome true.
C15_ScenarioAsStated ==
  [][StoredHomeWin =>
       LET id == inv[1].schedule.latestCompleted.id
           r == GetGameReview(reviewsStore', id, TRUE, TRUE)
       IN /\ r # Null
          /\ JsonStringify(r.gameId) = JsonStringify(String(id))
          /\ ~r.didLose /\ r.leafsScore = 4 /\ r.opponentScore = 2
          /\ r.opponent = "BOS"
          /\ r.isLeafsHome]_vars

\* C15 amended: right after the poller stored a home game that ended
\* TOR 4, BOS 2, get(String(id)) returns a record whose gameId is the id
\* itself, a number, with didLose false, leafsScore 4, opponentScore 2,
\* opponent the place name of the away team ("Boston") and isLeafsHome
\* true.
C15_ScenarioStored ==
  [][StoredHomeWin =>
       LET latestGame == inv[1].schedule.latestCompleted
           r == GetGameReview(reviewsStore', latestGame.id, TRUE, TRUE)
       IN /\ r # Null
          /\ JsonStringify(r.gameId) = JsonStringify(latestGame.id)
          /\ r.gameId = latestGame.id
          /\ r.gameDate = latestGame.gameDate
          /\ ~r.didLose /\ r.leafsScore = 4 /\ r.opponentScore = 2
          /\ r.opponent = latestGame.awayTeam.placeName.default
          /\ r.opponent = "Boston"
          /\ r.isLeafsHome
          /\ r.review = inv[1].review]_vars

C15_Witness ==
  /\ inv[1].pc = "setLastGameId"
  /\ inv[1].calls.reviewSet = 1
  /\ LatestId(inv[1]) = 1
  /\ HasRecord(1)
  /\ reviewsStore["1"].opponent = "Boston"
  /\ reviewsStore["1"].leafsScore = 4
  /\ reviewsStore["1"].opponentScore = 2

\* C16: whenever the landing and the boxscore endpoint both answer, with
\* whichever of the four combinations of ok and failed statuses,
\* getGameData returns a value: scoring and penalties are empty when the
\* landing endpoint failed, threeStars and the players' lists are empty and
\* the team stats absent when the boxscore endpoint failed, and they are
\* the endpoints' data otherwise; the handler then calls generateReview
\* with these values.
Failed(status) == status \notin 200..299

C16_DegradedDetailTolerated ==
  [][/\ (GetGameData(1) /\ inv'[1].detail.landing # 0) =>
          LET latestGame == inv[1].schedule.latestCompleted
              gameData == inv'[1].gameData
              landingFailed == Failed(inv'[1].detail.landing)
              boxscoreFailed == Failed(inv'[1].detail.boxscore)
              leafsSide == IF latestGame.homeTeam.abbrev = "TOR"
                           THEN Boxscore(latestGame).playerByGameStats.homeTeam
                           ELSE Boxscore(latestGame).playerByGameStats.awayTeam
          IN /\ inv'[1].pc = "generateReview"
             /\ gameData # Null
             /\ landingFailed => gameData.scoring = <<>> /\ gameData.penalties = <<>>
             /\ ~landingFailed =>
                  /\ gameData.scoring = Landing(latestGame).summary.scoring
                  /\ gameData.penalties = Landing(latestGame).summary.penalties
                  /\ Len(gameData.scoring) > 0
             /\ boxscoreFailed =>
                  /\ gameData.threeStars = <<>>
                  /\ gameData.homeTeam = Null /\ gameData.awayTeam = Null
                  /\ gameData.leafsSkaters = <<>> /\ gameData.leafsGoalies = <<>>
                  /\ gameData.opponentSkaters = <<>> /\ gameData.opponentGoalies = <<>>
             /\ ~boxscoreFailed =>
                  /\ gameData.threeStars = Boxscore(latestGame).summary.threeStars
                  /\ gameData.homeTeam = Boxscore(latestGame).homeTeam
                  /\ gameData.awayTeam = Boxscore(latestGame).awayTeam
                  /\ gameData.leafsSkaters = leafsSide.forwards \o leafsSide.defense
                  /\ gameData.leafsGoalies = leafsSide.goalies
     /\ GenerateReview(1) =>
          /\ inv'[1].calls.generate = 1
          /\ inv'[1].args # Null
          /\ inv'[1].args.game = inv[1].schedule.latestCompleted
          /\ inv'[1].args.scoring = inv[1].gameData.scoring
          /\ inv'[1].args.penalties = inv[1].gameData.penalties
          /\ inv'[1].args.threeStars = inv[1].gameData.threeStars
          /\ inv'[1].args.leafsSkaters = inv[1].gameData.leafsSkaters
          /\ inv'[1].args.opponentGoalies = inv[1].gameData.opponentGoalies
          /\ Failed(inv[1].detail.boxscore) =>
               inv'[1].args.leafsStats = Null /\ inv'[1].args.opponentStats = Null
          /\ ~Failed(inv[1].detail.boxscore) =>
               inv'[1].args.leafsStats # Null /\ inv'[1].args.opponentStats # Null]_vars

\* generateReview was called after the landing endpoint had failed and the
\* boxscore endpoint had not
C16_Witness ==
  /\ inv[1].calls.generate = 1
  /\ inv[1].detail = [landing |-> 503, boxscore |-> 200]
  /\ inv[1].args # Null
  /\ inv[1].args.penalties = <<>>
  /\ inv[1].args.scoring = <<>>
  /\ inv[1].args.leafsStats # Null

\* C17: without GEMINI_API_KEY generateReview returns null and does not
\* call the text-generation API; the invocation goes on without writing a
\* record, does not reject while its collaborators answer, and returns
\* "Processed game" with the game-reviews store as it found it.
C17_NoKeyNoRecord ==
  [][~Truthy(apiKey) =>
       /\ GenerateReview(1) =>
            /\ inv'[1].review = NullText
            /\ inv'[1].calls.generate = 1
            /\ inv'[1].calls.gemini = 0
            /\ inv'[1].pc = "setLastGameId"
       /\ (Step(1) /\ healthy) => inv'[1].pc # "threw"
       /\ inv'[1].calls.gemini = 0
       /\ inv'[1].calls.reviewSet = 0
       /\ reviewsStore' = EmptyStore
       /\ (TriggerRebuild(1) /\ inv'[1].pc = "done") =>
            /\ inv'[1].response = "Processed game"
            /\ reviewsStore' = inv'[1].snapReviews
            /\ String(LatestId(inv'[1])) \notin DOMAIN reviewsStore']_vars

\* an invocation without the key called generateReview and returned
C17_Witness ==
  /\ ~Truthy(apiKey)
  /\ inv[1].pc = "done"
  /\ inv[1].response = "Processed game"
  /\ inv[1].calls.generate = 1
  /\ inv[1].calls.gemini = 0
  /\ inv[1].review = NullText
  /\ ~HasRecord(LatestId(inv[1]))

\* C18: every record of the game-reviews store has a non-empty review and
\* lies under the key String(record.gameId), and a record appears or
\* changes only in a setJSON of the poller or of the backfill function whose
\* invocation called generateReview for that game and got that text.
WrittenByPoller(key, record) ==
  /\ inv[1].pc = "setJSON"
  /\ inv[1].calls.generate = 1
  /\ inv[1].review \notin {NullText, ""}
  /\ record.review = inv[1].review
  /\ key = String(LatestId(inv[1]))

WrittenByBackfill(key, record) ==
  /\ backfill[1].pc = "setJSON"
  /\ backfill[1].batch[backfill[1].k].id \in backfill[1].generated
  /\ backfill[1].review \notin {NullText, ""}
  /\ record.review = backfill[1].review
  /\ key = String(backfill[1].batch[backfill[1].k].id)

C18_RecordsHaveGeneratedReview ==
  [][\A key \in DOMAIN reviewsStore' :
       /\ reviewsStore'[key].review \notin {NullText, ""}
       /\ key = String(reviewsStore'[key].gameId)
       /\ (key \notin DOMAIN reviewsStore \/ reviewsStore'[key] # reviewsStore[key]) =>
            \/ WrittenByPoller(key, reviewsStore'[key])
            \/ WrittenByBackfill(key, reviewsStore'[key])]_vars

\* a backfill invocation got no text for its first game and a text for its
\* second: only the second has a record
C18_Witness ==
  /\ backfill[1].pc = "relist"
  /\ Len(backfill[1].results) = 2
  /\ ~backfill[1].results[1].success
  /\ backfill[1].results[1].error = "Failed to generate review"
  /\ backfill[1].results[2].success
  /\ ~HasRecord(backfill[1].results[1].gameId)
  /\ HasRecord(backfill[1].results[2].gameId)

\* C19: over any sequence of poller invocations, backfill invocations and
\* reads through the storage library, the game-reviews store never loses a
\* key.
C19_StoreNeverLosesKey ==
  [][DOMAIN reviewsStore \subseteq DOMAIN reviewsStore']_vars

\* both writers have written and a page build has listed both keys
C19_Witness ==
  /\ reader.pc = "done"
  /\ reader.op = "getAllGameIds"
  /\ Len(reader.result) = 2
  /\ DOMAIN reviewsStore = {reader.result[1], reader.result[2]}
  /\ reader.result[1] # reader.result[2]

\* C20: getAllGameReviews, when the store answers, returns every record of
\* the store exactly once, ordered by gameDate descending: of two adjacent
\* results the first has the later or the same date.
DayOf(gameDate) == CHOOSE i \in GameIds : gameDate = "2025-01-0" \o ToString(i)

C20_AllReviewsSortedByDate ==
  [][ReadAllGameReviewsGets =>
       LET result == reader'.result
           Complete ==
             /\ Len(result) = Cardinality(DOMAIN reviewsStore)
             /\ \A key \in DOMAIN reviewsStore :
                  Cardinality({j \in 1..Len(result) : result[j] = reviewsStore[key]}) = 1
             /\ \A j \in 1..(Len(result) - 1) :
                  DayOf(result[j].gameDate) >= DayOf(result[j + 1].gameDate)
       IN /\ healthy => Complete
          /\ ~healthy => Complete \/ result = <<>>]_vars

\* the call returned two records, the later game first
C20_Witness ==
  /\ reader.pc = "done"
  /\ reader.op = "getAllGameReviews"
  /\ Len(reader.result) = 2
  /\ reader.result[1].gameId = 2
  /\ reader.result[2].gameId = 1

\* the invocation has passed the existing-record check without fetching
\* detail: it found a record under the id of the latest completed game
SkippedGeneration(i) ==
  /\ i.pc \in {"setLastGameId", "setNextGameTime", "triggerRebuild", "done"}
  /\ i.pc = "done" => i.response = "Processed game"
  /\ i.calls.detail = 0

\* C21: when the key of the latest completed game is not lastGameId and a
\* record exists under String(game.id), the invocation goes from the
\* existing-record check straight to the update of the state: it never calls
\* getGameData or generateReview and never sets the record, which stays as
\* it was; while its collaborators answer it sets lastGameId to the current
\* key, then nextGameTime when the schedule has a next upcoming game, then
\* posts to the build hook once and returns "Processed game".
C21_ExistingRecordSkipsToStateUpdate ==
  [][/\ (/\ GetExistingReview(1)
         /\ String(inv[1].schedule.latestCompleted.id) \in DOMAIN reviewsStore
         /\ healthy)
        => /\ inv'[1].pc = "setLastGameId"
           /\ SkippedGeneration(inv'[1])
     /\ (SkippedGeneration(inv[1]) /\ Step(1)) =>
          LET latestGame == inv[1].schedule.latestCompleted
              nextUpcoming == inv[1].schedule.nextUpcoming
              key == String(latestGame.id)
          IN /\ ~(GetGameData(1) \/ GenerateReview(1) \/ SetJSON(1))
             /\ inv'[1].calls.detail = 0 /\ inv'[1].calls.generate = 0
             /\ inv'[1].calls.reviewSet = 0
             /\ key \in DOMAIN reviewsStore
             /\ reviewsStore' = reviewsStore
             /\ reviewsStore'[key] = inv[1].snapReviews[key]
             /\ healthy =>
                  /\ inv[1].pc = "setLastGameId" =>
                       /\ StoreGetText(stateStore', "lastGameId") =
                            String(latestGame.id) \o "-" \o latestGame.gameDate
                       /\ inv'[1].pc = IF nextUpcoming # Null THEN "setNextGameTime"
                                                              ELSE "triggerRebuild"
                  /\ inv[1].pc = "setNextGameTime" =>
                       /\ StoreGetText(stateStore', "nextGameTime") = nextUpcoming.startTimeUTC
                       /\ inv'[1].pc = "triggerRebuild"
                  /\ inv[1].pc = "triggerRebuild" =>
                       /\ inv'[1].pc = "done"
                       /\ inv'[1].response = "Processed game"
                       /\ inv'[1].calls.rebuild = 1
                       /\ StoreGetText(stateStore, "lastGameId") =
                            String(latestGame.id) \o "-" \o latestGame.gameDate
                       /\ nextUpcoming # Null =>
                            StoreGetText(stateStore, "nextGameTime") =
                              nextUpcoming.startTimeUTC]_vars

\* an invocation that found the record a failed earlier one had written
\* has returned, with lastGameId moved on and the record untouched
C21_Witness ==
  /\ inv[1].pc = "done"
  /\ inv[1].response = "Processed game"
  /\ inv[1].calls.detail = 0
  /\ inv[1].calls.rebuild = 1
  /\ HasRecord(LatestId(inv[1]))
  /\ reviewsStore = inv[1].snapReviews
  /\ inv[1].schedule.nextUpcoming # Null
  /\ StoreGetText(inv[1].snapState, "lastGameId") #
       StoreGetText(stateStore, "lastGameId")

\* the forms in which lastGameId can name the game with this id
KeysNaming(id) ==
  {String(id)} \cup {String(id) \o "-" \o d : d \in {GameDate(id), MakeupDate(id)}}

\* C22: the poll key joins id and date: when lastGameId names the id of the
\* latest completed game under another date, the invocation takes the game
\* for a new one and goes on to the existing-record check; the record
\* stored under that id for the earlier date is found there, so that no
\* detail is fetched, nothing is generated, and the record of the earlier
\* date stays the only record of the id, while lastGameId moves to the key
\* of the new date.
C22_ReusedIdIsNewGameButKeepsRecord ==
  [][/\ (/\ GetLastGameId(1)
         /\ StoreGetText(stateStore, "lastGameId") \in KeysNaming(LatestId(inv[1]))
         /\ StoreGetText(stateStore, "lastGameId") #
              String(LatestId(inv[1])) \o "-" \o inv[1].schedule.latestCompleted.gameDate)
        => inv'[1].pc = "getExistingReview"
     /\ (/\ GetExistingReview(1)
         /\ String(LatestId(inv[1])) \in DOMAIN reviewsStore)
        => /\ inv'[1].pc = "setLastGameId"
           /\ inv'[1].calls.detail = 0 /\ inv'[1].calls.generate = 0
     /\ \A key \in DOMAIN reviewsStore :
          /\ key \in DOMAIN reviewsStore'
          /\ reviewsStore'[key] = reviewsStore[key]
     /\ (TriggerRebuild(1) /\ inv'[1].calls.detail = 0) =>
          LET latestGame == inv[1].schedule.latestCompleted
              record == reviewsStore'[String(latestGame.id)]
          IN /\ inv'[1].calls.generate = 0 /\ inv'[1].calls.reviewSet = 0
             /\ record = inv[1].snapReviews[String(latestGame.id)]
             /\ StoreGetText(stateStore', "lastGameId") =
                  String(latestGame.id) \o "-" \o latestGame.gameDate
             /\ latestGame.gameDate # GameDate(latestGame.id) =>
                  record.gameDate = GameDate(latestGame.id)]_vars

\* the replayed game has been polled: lastGameId carries the new date, the
\* only record of the id the earlier one
C22_Witness ==
  /\ inv[1].pc = "done"
  /\ inv[1].response = "Processed game"
  /\ inv[1].calls.detail = 0
  /\ LatestId(inv[1]) = 1
  /\ inv[1].schedule.latestCompleted.gameDate = MakeupDate(1)
  /\ StoreGetText(inv[1].snapState, "lastGameId") = "1-" \o GameDate(1)
  /\ StoreGetText(stateStore, "lastGameId") = "1-" \o MakeupDate(1)
  /\ HasRecord(1)
  /\ reviewsStore["1"].gameDate = GameDate(1)

\* C23: the POST to the build hook is issued in one place only, after the
\* state is persisted: when an invocation issues it, lastGameId already is
\* the key of the latest completed game and nextGameTime, when the schedule
\* has a next upcoming game, already is that game's start; whether the POST
\* succeeds or is rejected, both stores stay as they are, the record written
\* by the invocation included.
C23_RebuildAfterStatePersisted ==
  [][/\ inv'[1].calls.rebuild > inv[1].calls.rebuild => TriggerRebuild(1)
     /\ TriggerRebuild(1) =>
          LET latestGame == inv[1].schedule.latestCompleted
              nextUpcoming == inv[1].schedule.nextUpcoming
          IN /\ inv[1].calls.rebuild = 0
             /\ inv'[1].calls.rebuild = 1
             /\ inv[1].calls.stateSet = IF nextUpcoming # Null THEN 2 ELSE 1
             /\ StoreGetText(stateStore, "lastGameId") =
                  String(latestGame.id) \o "-" \o latestGame.gameDate
             /\ nextUpcoming # Null =>
                  StoreGetText(stateStore, "nextGameTime") = nextUpcoming.startTimeUTC
             /\ inv[1].calls.reviewSet = 1 =>
                  /\ String(latestGame.id) \in DOMAIN reviewsStore
                  /\ reviewsStore[String(latestGame.id)].review = inv[1].review
             /\ stateStore' = stateStore
             /\ reviewsStore' = reviewsStore
             /\ inv'[1].pc \in {"done", "threw"}]_vars

\* the POST was rejected after the invocation had stored a record and both
\* keys of the state
C23_Witness ==
  /\ inv[1].pc = "threw"
  /\ inv[1].calls.rebuild = 1
  /\ inv[1].calls.reviewSet = 1
  /\ inv[1].calls.stateSet = 2
  /\ \E g \in GameIds :
       /\ HasRecord(g)
       /\ StoreGetText(stateStore, "lastGameId") = String(g) \o "-" \o GameDate(g)
       /\ g < NumGames
       /\ StoreGetText(stateStore, "nextGameTime") = ToString(StartInstant(g + 1))

\* the positions in the schedule of the games whose state is in the set
Positions(data, states) == {k \in 1..Len(data) : data[k].gameState \in states}

\* the game at the last of the positions, null when there is none
LastAt(data, positions) ==
  IF positions = {} THEN Null
  ELSE data[CHOOSE k \in positions : \A j \in positions : j <= k]

\* the game at the first of the positions, null when there is none
FirstAt(data, positions) ==
  IF positions = {} THEN Null
  ELSE data[CHOOSE k \in positions : \A j \in positions : k <= j]

\* C24: whatever the states of the schedule's games, getScheduleData
\* returns as latestCompleted the last game in schedule order whose state is
\* OFF or FINAL, as nextUpcoming the first game whose state is FUT, and as
\* gameInProgress the first game in any other state, each null when there is
\* no such game; getLeafsGames returns the same latest and next game.
C24_ScheduleSelection ==
  [][(GetScheduleData(1) /\ inv'[1].status = 200) =>
       LET completed == Positions(games, {"OFF", "FINAL"})
           upcoming == Positions(games, {"FUT"})
           others == (1..Len(games)) \ (completed \cup upcoming)
           schedule == inv'[1].schedule
       IN /\ schedule # Null
          /\ schedule.latestCompleted = LastAt(games, completed)
          /\ schedule.nextUpcoming = FirstAt(games, upcoming)
          /\ schedule.gameInProgress = FirstAt(games, others)
          /\ LeafsGames(games).latestGame = LastAt(games, completed)
          /\ LeafsGames(games).nextGame = FirstAt(games, upcoming)]_vars

\* a schedule of two completed games was fetched: the second is the latest
C24_Witness ==
  /\ inv[1].status = 200
  /\ inv[1].schedule # Null
  /\ inv[1].schedule.latestCompleted # Null
  /\ inv[1].schedule.latestCompleted.id = 2
  /\ inv[1].schedule.latestCompleted.gameState = "OFF"
  /\ games[1].gameState = "FINAL"
  /\ inv[1].schedule.nextUpcoming = Null
  /\ inv[1].schedule.gameInProgress = Null

\* the step writes nextGameTime
WritesNextGameTime ==
  /\ SetNextGameTime(1) \/ SetNextGameTimeSame(1)
  /\ inv'[1].calls.stateSet = inv[1].calls.stateSet + 1

\* C25: nextGameTime is written only by an invocation whose schedule showed
\* no game in progress, and only when lastGameId is the key of that
\* schedule's latest completed game, which it still is after the write and
\* when the invocation ends; hence whenever an invocation ends at once
\* because of nextGameTime, lastGameId names the game that preceded the
\* awaited one or a later game.
C25_NextGameTimeOnlyAfterProcessed ==
  [][/\ StoreGetText(stateStore', "nextGameTime") #
          StoreGetText(stateStore, "nextGameTime") => WritesNextGameTime
     /\ (/\ GetScheduleData(1)
         /\ inv'[1].status = 200
         /\ \E i \in GameIds : games[i].gameState \notin {"OFF", "FINAL", "FUT"})
        => inv'[1].pc \in {"done", "threw"}
     /\ WritesNextGameTime =>
          LET latestGame == inv[1].schedule.latestCompleted
              key == String(latestGame.id) \o "-" \o latestGame.gameDate
          IN /\ inv[1].schedule.gameInProgress = Null
             /\ StoreGetText(stateStore, "lastGameId") = key
             /\ StoreGetText(stateStore', "lastGameId") = key
             /\ StoreGetText(stateStore', "nextGameTime") =
                  inv[1].schedule.nextUpcoming.startTimeUTC
     /\ (inv[1].calls.stateSet > 0 /\ Step(1) /\ inv'[1].pc \in {"done", "threw"}) =>
          \E g \in GameIds :
            /\ StoreGetText(stateStore', "lastGameId") = String(g) \o "-" \o GameDate(g)
            /\ inv'[1].pc = "done" => g = LatestId(inv'[1])
     /\ (/\ CheckNextGameTime(1)
         /\ inv'[1].response \in {"Game not started", "Game in progress"})
        => \E j \in GameIds, g \in GameIds :
             /\ StoreGetText(stateStore, "nextGameTime") = ToString(StartInstant(j))
             /\ g >= j - 1
             /\ StoreGetText(stateStore, "lastGameId") =
                  String(g) \o "-" \o GameDate(g)]_vars

\* an invocation ended at once because the next game had not started; the
\* game before it is the one marked processed
C25_Witness ==
  /\ inv[1].pc = "done"
  /\ inv[1].response = "Game not started"
  /\ inv[1].calls = NoCalls
  /\ StoreGetText(stateStore, "nextGameTime") = ToString(StartInstant(2))
  /\ StoreGetText(stateStore, "lastGameId") = "1-" \o GameDate(1)

\* C26: a backfill invocation works on at most BATCH_SIZE games: every game
\* it calls generateReview or setJSON for is a completed game of the
\* schedule whose String(id) was not among the keys listed at the start of
\* the invocation, and is the k-th such game in schedule order for a k of at
\* most BATCH_SIZE; the games are taken in that order, and setJSON is called
\* only for a game generateReview was called for.
C26_BatchOfMissingGames ==
  [][/\ (BackfillList(1) /\ backfill'[1].pc # "threw") =>
          /\ backfill'[1].storedIds = DOMAIN reviewsStore
          /\ Elements(backfill[1].games) \subseteq
               {g \in Elements(games) : g.gameState \in {"OFF", "FINAL"}}
     /\ (BackfillGenerateReview(1) \/ BackfillSetJSON(1)) =>
          LET i == backfill[1]
              game == i.batch[i.k]
              missing == {g \in Elements(games) :
                            /\ g.gameState \in {"OFF", "FINAL"}
                            /\ String(g.id) \notin i.storedIds}
          IN /\ game \in missing
             /\ i.k <= BATCH_SIZE
             /\ Cardinality({g \in missing : g.id < game.id}) = i.k - 1
             /\ BackfillGenerateReview(1) =>
                  /\ game.id \notin i.generated
                  /\ backfill'[1].generated = i.generated \cup {game.id}
                  /\ backfill'[1].written = i.written
             /\ BackfillSetJSON(1) =>
                  /\ game.id \in i.generated
                  /\ game.id \notin i.written
                  /\ backfill'[1].written = i.written \cup {game.id}
                  /\ DOMAIN reviewsStore' \subseteq DOMAIN reviewsStore \cup {String(game.id)}
     /\ ~(BackfillGenerateReview(1) \/ BackfillSetJSON(1)) =>
          /\ reviewsStore' = reviewsStore
          /\ ~(BackfillFinished(1)' \/ BackfillGetCompletedGames(1)) =>
               /\ backfill'[1].generated = backfill[1].generated
               /\ backfill'[1].written = backfill[1].written
     /\ Cardinality(backfill'[1].generated) <= BATCH_SIZE
     /\ backfill'[1].written \subseteq backfill'[1].generated
     /\ \A id \in backfill'[1].generated : String(id) \notin backfill'[1].storedIds]_vars

\* an invocation found three games without a record and stored the first
\* two; the third has to wait for the next invocation
C26_Witness ==
  /\ backfill[1].pc = "done"
  /\ Len(backfill[1].missingGames) = BATCH_SIZE + 1
  /\ backfill[1].generated = {1, 2}
  /\ backfill[1].written = {1, 2}
  /\ DOMAIN reviewsStore = {"1", "2"}
  /\ backfill[1].response.remaining = 1

\* the completed games of the season
CompletedIds == {g \in DOMAIN games : games[g].gameState \in {"OFF", "FINAL"}}

\* the call answered that nothing is left to do, and nothing is
AllGamesHaveReviews ==
  /\ backfill[1].pc = "done"
  /\ backfill[1].response.message = "All games already have reviews!"
  /\ \A g \in CompletedIds : HasRecord(g)

C28_CompleteMeansAllStored ==
  (backfill[1].pc = "done" /\ backfill[1].response.message = "Backfill complete!") =>
    /\ backfill[1].response.remaining = 0
    /\ \A k \in 1..Len(backfill[1].games) : HasRecord(backfill[1].games[k].id)
    /\ \A k \in 1..Len(backfill[1].results) :
         backfill[1].results[k].success =>
           /\ backfill[1].results[k].gameId \in backfill[1].written
           /\ HasRecord(backfill[1].results[k].gameId)

\* C29: however an invocation of the poller and calls of the backfill
\* function overlap, no setJSON of a generated record is made under a key
\* that already holds a record, and every record stays as it was first
\* written.
C29_NoSecondRecordUnderOverlap ==
  [][/\ SetJSON(1) => String(LatestId(inv[1])) \notin DOMAIN reviewsStore
     /\ \A b \in Backfills :
          (BackfillSetJSON(b) /\ reviewsStore' # reviewsStore) =>
            String(backfill[b].batch[backfill[b].k].id) \notin DOMAIN reviewsStore
     /\ \A key \in DOMAIN reviewsStore :
          /\ key \in DOMAIN reviewsStore'
          /\ reviewsStore'[key] = reviewsStore[key]]_vars

\* C30: no call of the storage library throws.  getGameReview returns null,
\* getAllGameReviews and getAllGameIds return [] when the process is not in
\* a Netlify environment or when an operation of the store is rejected, a
\* single rejected get inside getAllGameReviews included, which discards
\* what the other gets returned; they return what the store holds
\* otherwise.  saveGameReview returns without writing in both cases and
\* writes the record under String(gameId) otherwise.  The three reading
\* functions leave both stores as they are.
C30_LibraryNeverThrows ==
  [][/\ reader'.pc # "threw"
     /\ \A gameId \in GameIds, n \in BOOLEAN, ok \in BOOLEAN :
          (reader'.op = "getGameReview" /\ ReadGameReviewIn(gameId, n, ok)) =>
            /\ reader'.pc = "done"
            /\ (~n \/ ~ok) => reader'.result = Null
            /\ (n /\ ok) =>
                 reader'.result = IF String(gameId) \in DOMAIN reviewsStore
                                  THEN reviewsStore[String(gameId)] ELSE Null
     /\ \A n \in BOOLEAN, ok \in BOOLEAN :
          (reader'.op = "getAllGameIds" /\ ReadAllGameIdsIn(n, ok)) =>
            /\ reader'.pc = "done"
            /\ (~n \/ ~ok) => reader'.result = <<>>
            /\ (n /\ ok) => Elements(reader'.result) = DOMAIN reviewsStore
     /\ \A n \in BOOLEAN, ok \in BOOLEAN :
          (reader'.op = "getAllGameReviews" /\ ReadAllGameReviewsListIn(n, ok)) =>
            /\ (~n \/ ~ok) => reader'.pc = "done" /\ reader'.result = <<>>
            /\ (n /\ ok) => reader'.pc = "gets"
     /\ \A getsOk \in [1..Len(reader.keys) -> BOOLEAN] :
          (reader.pc = "gets" /\ ReadAllGameReviewsGetsIn(getsOk)) =>
            /\ reader'.pc = "done"
            /\ (\E k \in 1..Len(reader.keys) : ~getsOk[k]) => reader'.result = <<>>
            /\ (\A k \in 1..Len(reader.keys) : getsOk[k]) =>
                 Elements(reader'.result) = {reviewsStore[key] : key \in DOMAIN reviewsStore}
     /\ \A g \in GameIds, n \in BOOLEAN, ok \in BOOLEAN :
          (reader'.op = "saveGameReview" /\ SaveGameReviewIn(g, n, ok)) =>
            /\ reader'.pc = "done"
            /\ (~n \/ ~ok) => reviewsStore' = reviewsStore
            /\ (n /\ ok) =>
                 /\ String(g) \in DOMAIN reviewsStore'
                 /\ reviewsStore'[String(g)].gameId = g
                 /\ \A key \in DOMAIN reviewsStore \ {String(g)} :
                      key \in DOMAIN reviewsStore' /\ reviewsStore'[key] = reviewsStore[key]
     /\ ReaderStep => reviewsStore' = reviewsStore /\ stateStore' = stateStore]_vars

\* getAllGameReviews listed two keys, one of its gets was rejected, and it
\* returned [] for a store that holds two records
C30_Witness ==
  /\ reader.pc = "done"
  /\ reader.op = "getAllGameReviews"
  /\ Len(reader.keys) = 2
  /\ reader.result = <<>>
  /\ Cardinality(DOMAIN reviewsStore) = 2
  /\ ~healthy

====
